---- MODULE Spec2Model ----
(***************************************************************************)
(* A model of the georges MAD-X wrapper (src/madx/madx.py) and of the      *)
(* linear transfer matrices of manzoni (src/manzoni/transfer.py).          *)
(*                                                                         *)
(* Text is modelled as sequences of tokens (strings); a multi-line text is *)
(* a sequence of lines.  Field values are strings: "None" is an absent key *)
(* (what Series.get returns), "nan" is the pandas missing value, "inf" an  *)
(* infinite float, anything else the printed form of the value.            *)
(***************************************************************************)
EXTENDS Integers, Sequences, FiniteSets, TLC

VARIABLES
    pc,            \* position of the call under study: "call", "done"
    e,             \* element_to_mad: the element row
    mad,           \* element_to_mad: the returned text
    sequence,      \* sequence_to_mad: the beamline table (sorted in place)
    m,             \* sequence_to_mad: the returned text, line by line
    te,            \* transfer: the element's numeric fields
    fn,            \* transfer: the function that was applied
    tm,            \* transfer: the returned 5x5 matrix
    input,         \* Madx._input: the text fragments appended so far
    output,        \* Madx._output, as its lines (output.split('\n'))
    warnings,      \* Madx._warnings
    fatals,        \* Madx._fatals
    last_context,  \* Madx._last_context
    beamlines,     \* the attached beamline, NoBeamline when there is none
    stdin,         \* what the last spawned process was given to read
    spawned,       \* the number of subprocesses started so far
    call,          \* the last call on the wrapper: method, arguments, outcome
    ncalls,        \* the number of calls made on the wrapper
    nruns          \* the number of calls of run among them

pureVars == <<pc, e, mad, sequence, m, te, fn, tm>>

madxVars == <<input, output, warnings, fatals, last_context, beamlines,
              stdin, spawned, call, ncalls, nruns>>

vars == <<pureVars, madxVars>>

(***************************************************************************)
(* Bounds                                                                  *)
(***************************************************************************)
MaxPos == 3        \* center positions range over 1..MaxPos
MaxRows == 3       \* rows of a beamline table
MaxLen == 2        \* element lengths range over 0..MaxLen half-metres
MaxCalls == 3      \* calls made on one wrapper
MaxOutLines == 3   \* lines of a captured output
MaxParticles == 2  \* rows of a particle table

\* no beamline is attached
NoBeamline == [name |-> "None"]

\* no context has been used yet
NoContext == [unset |-> "None"]

\* the wrapper as it is when no call has been made on it
NoCall == [op |-> "", args |-> [none |-> ""], chained |-> FALSE,
           result |-> ""]

MadxIdle ==
    /\ input = <<>>
    /\ output = <<>> /\ warnings = <<>> /\ fatals = <<>>
    /\ last_context = NoContext
    /\ beamlines = NoBeamline
    /\ stdin = <<>>
    /\ spawned = 0
    /\ call = NoCall
    /\ ncalls = 0
    /\ nruns = 0

(***************************************************************************)
(* src/madx/madx.py: module constants                                      *)
(***************************************************************************)
SUPPORTED_PROPERTIES ==
    <<"APERTYPE", "E1", "E2", "FINT", "HGAP", "THICK", "TILT",
      "K1", "K2", "K3", "K1S", "K2S", "K3S">>

SUPPORTED_CLASSES ==
    <<"QUADRUPOLE", "RBEND", "SBEND", "SEXTUPOLE", "OCTUPOLE", "MARKER",
      "COLLIMATOR", "INSTRUMENT">>

Range(s) == {s[i] : i \in DOMAIN s}

\* e.get(k) is None
IsNone(v) == v = "None"

\* np.isnan(v)
IsNan(v) == v = "nan"

\* pd.notnull(v): neither None nor NaN
NotNull(v) == ~IsNone(v) /\ ~IsNan(v)

\* pd.isnull(v)
IsNull(v) == ~NotNull(v)

\* sep.join(parts), parts a sequence of token sequences
RECURSIVE Join(_, _)
Join(sep, parts) ==
    IF parts = <<>> THEN <<>>
    ELSE IF Len(parts) = 1 THEN parts[1]
    ELSE parts[1] \o <<sep>> \o Join(sep, Tail(parts))

\* str.strip('[]') on a token sequence: leading and trailing brackets go
RECURSIVE StripLeft(_)
StripLeft(s) ==
    IF s # <<>> /\ s[1] \in {"[", "]"} THEN StripLeft(Tail(s)) ELSE s

RECURSIVE StripRight(_)
StripRight(s) ==
    IF s # <<>> /\ s[Len(s)] \in {"[", "]"}
    THEN StripRight(SubSeq(s, 1, Len(s) - 1)) ELSE s

Strip(s) == StripRight(StripLeft(s))

\* the supported properties whose value is present, in the list's order
RECURSIVE PresentProperties(_, _)
PresentProperties(el, ps) ==
    IF ps = <<>> THEN <<>>
    ELSE (IF NotNull(el.props[ps[1]])
          THEN << <<ps[1], "=", el.props[ps[1]]>> >> ELSE <<>>)
         \o PresentProperties(el, Tail(ps))

\* lines 48-54: the ANGLE term
AngleTermNoOverride(el) ==
    IF ~IsNone(el.ANGLE) /\ ~IsNan(el.ANGLE)
    THEN <<"ANGLE", "=", el.ANGLE, ",">>
    ELSE <<>>

AngleTerm(el) ==
    IF ~IsNone(el.BENDING_ANGLE) /\ ~IsNan(el.BENDING_ANGLE)
    THEN <<"ANGLE", "=", el.BENDING_ANGLE, ",">>
    ELSE IF ~IsNone(el.ANGLE) /\ ~IsNan(el.ANGLE)
    THEN <<"ANGLE", "=", el.ANGLE, ",">>
    ELSE <<>>

\* line 45: the class test
IsSupportedAny(c) == TRUE

IsSupported(c) == c \in Range(SUPPORTED_CLASSES)

\* element_to_mad(e): the MAD-X text of one row, "" for an unsupported class
element_to_mad(el) ==
    IF ~IsSupported(el.CLASS) THEN <<>>
    ELSE
        <<el.name, ": ", el.CLASS, ", ">>
        \o AngleTerm(el)
        \o Join(", ", PresentProperties(el, SUPPORTED_PROPERTIES))
        \o (IF NotNull(el.LENGTH) /\ el.LENGTH # "0.0"
            THEN <<", ", "L", "=", el.LENGTH>> ELSE <<>>)
        \o (IF NotNull(el.props["APERTYPE"])
            THEN <<", ", "APERTURE", "=">> \o Strip(el.APERTURE) ELSE <<>>)
        \o (IF NotNull(el.PLUG) /\ NotNull(el.CIRCUIT) /\ IsNull(el.VALUE)
            THEN <<", ", el.PLUG, ":=", el.CIRCUIT>> ELSE <<>>)
        \o (IF NotNull(el.PLUG) /\ NotNull(el.VALUE)
            THEN <<", ", el.PLUG, "=", el.VALUE>> ELSE <<>>)
        \o <<", ", "AT", "=", ToString(el.AT_CENTER)>>
        \o <<";">>

(***************************************************************************)
(* element_to_mad applied to one element row                               *)
(***************************************************************************)
PropertyNames == Range(SUPPORTED_PROPERTIES)

NoProps == [p \in PropertyNames |-> "None"]

\* the property columns of the rows that are tried
PropsChoices ==
    { NoProps,
      [NoProps EXCEPT !["K1"] = "2.5"],
      [NoProps EXCEPT !["E1"] = "0.1", !["E2"] = "nan", !["TILT"] = "0.3"],
      [NoProps EXCEPT !["APERTYPE"] = "CIRCLE", !["K1S"] = "1.5"] }

Classes == {"QUADRUPOLE", "SBEND", "MARKER", "DRIFT", "SOLENOID"}

AngleValues == {"None", "nan", "inf", "0.1", "0.2"}

Elements ==
    [ name : {"Q1"},
      CLASS : Classes,
      BENDING_ANGLE : AngleValues,
      ANGLE : AngleValues,
      props : PropsChoices,
      LENGTH : {"nan", "0.0", "2.0"},
      APERTURE : {<<"nan">>, <<"[", "0.05", "]">>},
      PLUG : {"None", "K1", "ANGLE"},
      CIRCUIT : {"None", "QC1"},
      VALUE : {"None", "3.0"},
      AT_CENTER : 1..MaxPos ]

InitElement ==
    /\ pc = "call"
    /\ e \in Elements
    /\ mad = <<>>
    /\ sequence = <<>>
    /\ m = <<>>
    /\ te = <<>> /\ fn = "" /\ tm = <<>>
    /\ MadxIdle

\* mad = element_to_mad(e)
ElementToMad ==
    /\ pc = "call"
    /\ mad' = element_to_mad(e)
    /\ pc' = "done"
    /\ UNCHANGED <<e, sequence, m, te, fn, tm, madxVars>>

NextElement == ElementToMad

SpecElement == InitElement /\ [][NextElement]_vars

(***************************************************************************)
(* sequence_to_mad applied to one beamline table                           *)
(***************************************************************************)
\* the permutations of 1..n
IndexPermutations(n) ==
    {p \in [1..n -> 1..n] : \A i, j \in 1..n : i # j => p[i] # p[j]}

\* the row orders that leave a table as it is (no sorting)
SortValuesKeepOrder(rows) == {rows}

\* sequence.sort_values(by='AT_CENTER', inplace=True): the rows in ascending
\* order of AT_CENTER.  The default sort is not stable, so rows with the
\* same center may come out in any order.
SortValues(rows) ==
    { [i \in 1..Len(rows) |-> rows[p[i]]] : p \in
        { q \in IndexPermutations(Len(rows)) :
            \A i, j \in 1..Len(rows) :
                i < j => rows[q[i]].AT_CENTER <= rows[q[j]].AT_CENTER } }

\* '\n'.join(parts) + '\n', as lines: joining nothing leaves one empty line
JoinLines(parts) == IF parts = <<>> THEN << <<>> >> ELSE parts

\* sequence['CIRCUIT'].dropna(): the circuits that are set, in row order
RECURSIVE DropNa(_)
DropNa(rows) ==
    IF rows = <<>> THEN <<>>
    ELSE (IF NotNull(rows[1].CIRCUIT) THEN <<rows[1].CIRCUIT>> ELSE <<>>)
         \o DropNa(Tail(rows))

\* "{}:={{{{ {} or '0.0' }}}};".format(c, c)
CircuitLine(c) == <<c, ":=", "{{ ", c, " or '0.0' }}", ";">>

\* "{}: SEQUENCE, L={}, REFER=CENTER;".format(sequence.name, sequence.length)
SequenceLine(t) ==
    <<t.name, ": ", "SEQUENCE", ", ", "L", "=", t.length, ", ",
      "REFER", "=", "CENTER", ";">>

EndSequenceLine == <<"ENDSEQUENCE", ";">>

\* lines 74-80 of sequence_to_mad, on the sorted table
sequence_to_mad(t) ==
    <<SequenceLine(t)>>
    \o JoinLines([i \in 1..Len(t.rows) |-> element_to_mad(t.rows[i])])
    \o <<EndSequenceLine>>
    \o (IF t.circuitColumn
        THEN JoinLines([i \in 1..Len(DropNa(t.rows)) |->
                            CircuitLine(DropNa(t.rows)[i])])
        ELSE <<>>)

TableClasses == {"QUADRUPOLE", "DRIFT"}

\* the CIRCUIT values of a row: absent without the column, else set or NaN
CircuitValues(hasColumn) == IF hasColumn THEN {"nan", "QC1"} ELSE {"None"}

RowName(i) == "E" \o ToString(i)

Row(i, class, at, circuit) ==
    [ name |-> RowName(i),
      CLASS |-> class,
      BENDING_ANGLE |-> "None",
      ANGLE |-> "None",
      props |-> NoProps,
      LENGTH |-> "1.0",
      APERTURE |-> <<"nan">>,
      PLUG |-> "K1",
      CIRCUIT |-> circuit,
      VALUE |-> "None",
      AT_CENTER |-> at ]

\* the table of n rows that f describes
Table(nm, hc, n, f) ==
    [ name |-> nm,
      length |-> "10.0",
      circuitColumn |-> hc,
      rows |-> [i \in 1..n |-> Row(i, f[i].class, f[i].at, f[i].circuit)] ]

\* the beamline tables that are tried: 1..MaxRows rows in every order
InitSequence ==
    /\ pc = "call"
    /\ \E n \in 1..MaxRows, hc \in BOOLEAN :
          \E f \in [1..n -> [class : TableClasses, at : 1..MaxPos,
                             circuit : CircuitValues(hc)]] :
              sequence = Table("LINE", hc, n, f)
    /\ m = <<>>
    /\ e = <<>>
    /\ mad = <<>>
    /\ te = <<>> /\ fn = "" /\ tm = <<>>
    /\ MadxIdle

\* m = sequence_to_mad(sequence); the table is left sorted
SequenceToMad ==
    /\ pc = "call"
    /\ \E sorted \in SortValues(sequence.rows) :
          /\ sequence' = [sequence EXCEPT !.rows = sorted]
          /\ m' = sequence_to_mad(sequence')
    /\ pc' = "done"
    /\ UNCHANGED <<e, mad, te, fn, tm, madxVars>>

NextSequence == SequenceToMad

SpecSequence == InitSequence /\ [][NextSequence]_vars

(***************************************************************************)
(* src/manzoni/transfer.py: drift and sbend                                *)
(*                                                                         *)
(* A float is a record: a finite number in thousandths (kind "num"), an    *)
(* infinity with its sign (kind "inf") or NaN (kind "nan"), with the       *)
(* IEEE-754 rules numpy follows for division by zero and for the           *)
(* arithmetic of the special values.                                       *)
(***************************************************************************)
Scale == 10 * 10 * 10

Num(v) == [kind |-> "num", v |-> v]
Inf(sign) == [kind |-> "inf", v |-> sign]
NaN == [kind |-> "nan", v |-> 0]

Sign(v) == IF v < 0 THEN -1 ELSE 1

\* rounding division of integers, to the nearest thousandth
RoundDiv(a, b) ==
    LET n == IF b < 0 THEN -a ELSE a
        d == IF b < 0 THEN -b ELSE b
    IN  IF n >= 0 THEN (2 * n + d) \div (2 * d)
        ELSE -((2 * (-n) + d) \div (2 * d))

Neg(a) == IF a.kind = "nan" THEN NaN ELSE [a EXCEPT !.v = -a.v]

Add(a, b) ==
    IF a.kind = "nan" \/ b.kind = "nan" THEN NaN
    ELSE IF a.kind = "inf" /\ b.kind = "inf"
    THEN (IF a.v = b.v THEN a ELSE NaN)
    ELSE IF a.kind = "inf" THEN a
    ELSE IF b.kind = "inf" THEN b
    ELSE Num(a.v + b.v)

Sub(a, b) == Add(a, Neg(b))

Mul(a, b) ==
    IF a.kind = "nan" \/ b.kind = "nan" THEN NaN
    ELSE IF a.kind = "inf" \/ b.kind = "inf"
    THEN (IF a.v = 0 \/ b.v = 0 THEN NaN ELSE Inf(Sign(a.v) * Sign(b.v)))
    ELSE Num(RoundDiv(a.v * b.v, Scale))

Div(a, b) ==
    IF a.kind = "nan" \/ b.kind = "nan" THEN NaN
    ELSE IF a.kind = "inf"
    THEN (IF b.kind = "inf" THEN NaN ELSE Inf(a.v * Sign(b.v)))
    ELSE IF b.kind = "inf" THEN Num(0)
    ELSE IF b.v = 0 THEN (IF a.v = 0 THEN NaN ELSE Inf(Sign(a.v)))
    ELSE Num(RoundDiv(a.v * Scale, b.v))

\* np.sin, np.cos, np.tan of a finite angle: their Taylor polynomials
Sin(x) ==
    LET x3 == Mul(Mul(x, x), x)
        x5 == Mul(Mul(x3, x), x)
    IN  Add(Sub(x, Num(RoundDiv(x3.v, 6))), Num(RoundDiv(x5.v, 120)))

Cos(x) ==
    LET x2 == Mul(x, x)
        x4 == Mul(x2, x2)
    IN  Add(Sub(Num(Scale), Num(RoundDiv(x2.v, 2))), Num(RoundDiv(x4.v, 24)))

Tan(x) == Div(Sin(x), Cos(x))

Zero == Num(0)
One == Num(Scale)

\* a @ b for 5x5 matrices
MatMul(a, b) ==
    [i \in 1..5 |-> [j \in 1..5 |->
        Add(Add(Add(Add(Mul(a[i][1], b[1][j]), Mul(a[i][2], b[2][j])),
                    Mul(a[i][3], b[3][j])), Mul(a[i][4], b[4][j])),
            Mul(a[i][5], b[5][j]))]]

drift(el) ==
    LET length == el.LENGTH
    IN  << <<One, length, Zero, Zero, Zero>>,
           <<Zero, One, Zero, Zero, Zero>>,
           <<Zero, Zero, One, length, Zero>>,
           <<Zero, Zero, Zero, One, Zero>>,
           <<Zero, Zero, Zero, Zero, One>> >>

\* the thin-edge matrix of a face angle coefficient k
EdgeMatrix(k) ==
    << <<One, Zero, Zero, Zero, Zero>>,
       <<Neg(k), One, Zero, Zero, Zero>>,
       <<Zero, Zero, One, Zero, Zero>>,
       <<Zero, Zero, k, One, Zero>>,
       <<Zero, Zero, Zero, Zero, One>> >>

\* lines 36-74 of sbend: the bend proper, with its edges
sbend_body(el) ==
    LET theta == el.ANGLE
        length == el.LENGTH
        e1 == el.E1
        e2 == el.E2
        s == Sin(theta)
        c == Cos(theta)
        m_b == << <<c, Mul(Div(length, theta), s), Zero, Zero,
                    Mul(Div(length, theta), Sub(One, c))>>,
                  <<Mul(Neg(Div(theta, length)), s), c, Zero, Zero, s>>,
                  <<Zero, Zero, One, length, Zero>>,
                  <<Zero, Zero, Zero, One, Zero>>,
                  <<Zero, Zero, Zero, Zero, One>> >>
        k1 == Mul(Div(Neg(One), Div(length, theta)), Tan(e1))
        k2 == Mul(Div(Neg(One), Div(length, theta)), Tan(e2))
    IN  IF e1 = Zero /\ e2 = Zero THEN m_b
        ELSE MatMul(MatMul(EdgeMatrix(k2), m_b), EdgeMatrix(k1))

\* sbend without its test of the angle
sbend_no_zero_check(el) == sbend_body(el)

sbend(el) ==
    IF el.ANGLE = Zero THEN drift(el) ELSE sbend_body(el)

\* the element fields that are tried
TransferAngles == {Num(0), Num(500), Num(-250)}
TransferLengths == {Num(500 * k) : k \in 0..MaxLen}
TransferFaces == {Num(0), Num(100), Num(-200)}

InitTransfer ==
    /\ pc = "call"
    /\ te \in [ANGLE : TransferAngles, LENGTH : TransferLengths,
               E1 : TransferFaces, E2 : TransferFaces]
    /\ fn = ""
    /\ tm = <<>>
    /\ e = <<>> /\ mad = <<>> /\ sequence = <<>> /\ m = <<>>
    /\ MadxIdle

\* tm = transfer[CLASS_CODES['SBEND']](te)
Sbend ==
    /\ pc = "call"
    /\ tm' = sbend(te)
    /\ fn' = "sbend"
    /\ pc' = "done"
    /\ UNCHANGED <<te, e, mad, sequence, m, madxVars>>

\* tm = transfer[CLASS_CODES['DRIFT']](te)
Drift ==
    /\ pc = "call"
    /\ tm' = drift(te)
    /\ fn' = "drift"
    /\ pc' = "done"
    /\ UNCHANGED <<te, e, mad, sequence, m, madxVars>>

NextTransfer == Sbend \/ Drift

SpecTransfer == InitTransfer /\ [][NextTransfer]_vars

(***************************************************************************)
(* The Madx wrapper (src/madx/madx.py, class Madx).                        *)
(*                                                                         *)
(* A method is an operator from the buffer it finds (and its arguments) to *)
(* the record [input, result]: the buffer it leaves and how it ends:       *)
(* "self" or "None" (the value returned) or the name of the exception      *)
(* raised.  The base class Simulator and the grammar madx_syntax are not   *)
(* part of the sources; they are modelled from their description.          *)
(***************************************************************************)
Exceptions == {"MadxException", "SimulatorException", "AttributeError",
               "NameError", "TypeError"}

\* madx_syntax[name].format(*args): one fragment per command
Syntax(name, args) == <<name>> \o args

\* Simulator._add_input(name, *args): the rendered command joins the buffer
add_input(buf, name, args) == Append(buf, Syntax(name, args))

\* Simulator._attach(beamline): records the beamline
base_attach(bl) == bl

\* Madx.raw: self._input += raw + "\n"
raw_input(buf, text) == Append(buf, text \o <<"\n">>)

raw(buf, text) == [input |-> raw_input(buf, text), result |-> "self"]

select_columns(buf, flag, columns) ==
    [input |-> add_input(buf, "select_columns", <<flag>> \o columns),
     result |-> "self"]

call_file(buf, file) ==
    [input |-> add_input(buf, "call_file", <<file>>), result |-> "self"]

use_sequence(buf, seq) ==
    [input |-> add_input(buf, "use_sequence", <<seq>>), result |-> "self"]

beam(buf, line_name) ==
    [input |-> use_sequence(add_input(buf, "beam", <<>>), line_name).input,
     result |-> "self"]

rbarc(buf) == [input |-> add_input(buf, "rbarc", <<>>), result |-> "self"]

show_beam(buf) ==
    [input |-> add_input(buf, "show_beam", <<>>), result |-> "self"]

\* kwargs.get(key, default)
Get(kwargs, key, default) ==
    IF key \in DOMAIN kwargs /\ kwargs[key] # "Absent"
    THEN kwargs[key] ELSE default

save_beta(buf, kwargs) ==
    [input |-> add_input(buf, "save_beta",
                         <<Get(kwargs, "name", "BETA0"),
                           Get(kwargs, "place", "#s")>>),
     result |-> "self"]

\* Madx.stop: the method has no return statement
stop(buf) == [input |-> add_input(buf, "stop", <<>>), result |-> "None"]

makethin(buf, seq, kwargs) ==
    LET style == Get(kwargs, "style", "TEAPOT")
        dipole_slices == Get(kwargs, "dipole_slices", "4")
        quadrupole_slices == Get(kwargs, "quadrupole_slices", "4")
        b1 == Append(buf, <<"SELECT, FLAG=makethin, CLASS=quadrupole, THICK=false, SLICE=",
                            quadrupole_slices, ";", "\n">>)
        b2 == Append(b1, <<"SELECT, FLAG=makethin, CLASS=rbend, THICK=false, SLICE=",
                           dipole_slices, ";", "\n">>)
        b3 == add_input(b2, "makethin", <<seq, style>>)
    IN  [input |-> use_sequence(b3, seq).input, result |-> "self"]

\* the four commands that restart a sequence at an element
Cycle(buf, seqname, start) ==
    LET b1 == raw_input(buf, <<"SEQEDIT, SEQUENCE=", seqname, ";">>)
        b2 == raw_input(b1, <<"CYCLE, START=", start, ";">>)
        b3 == raw_input(b2, <<"ENDEDIT;">>)
    IN  raw_input(b3, <<"USE, SEQUENCE=", seqname, ";">>)

\* a keyword argument that was given and is true
Truthy(kwargs, key) ==
    key \in DOMAIN kwargs /\ kwargs[key] \notin {"Absent", "None", "False"}

survey(buf, kwargs) ==
    LET b1 == IF Truthy(kwargs, "start")
              THEN Cycle(buf, "BEAMLINE", kwargs.start) ELSE buf
    IN  [input |-> add_input(b1, "survey", <<>>), result |-> "None"]

(***************************************************************************)
(* Madx._attach and Madx.run                                               *)
(***************************************************************************)
\* the table of a beamline, with the name and length sequence_to_mad reads
LineOf(bl) ==
    [name |-> bl.name, length |-> bl.length,
     circuitColumn |-> bl.circuitColumn, rows |-> bl.rows]

\* Madx._attach(beamline), with the sorted rows sort_values leaves
attach(buf, bl, sorted) ==
    IF IsNull(bl.length)
    THEN [input |-> buf, beamlines |-> base_attach(bl),
          result |-> "SimulatorException"]
    ELSE [input |-> buf \o sequence_to_mad([LineOf(bl) EXCEPT !.rows = sorted]),
          beamlines |-> base_attach(bl),
          result |-> "None"]

\* jinja2.Template(text).render(context) on one fragment: the deferred
\* circuit value is the context's, or '0.0' when the context has none
RenderFragment(f, context) ==
    [i \in DOMAIN f |->
        IF f[i] = " or '0.0' }}" THEN ""
        ELSE IF i > 1 /\ f[i - 1] = "{{ "
        THEN (IF f[i] \in DOMAIN context THEN context[f[i]] ELSE "0.0")
        ELSE IF f[i] = "{{ " THEN ""
        ELSE f[i]]

Render(buf, context) == [i \in DOMAIN buf |-> RenderFragment(buf[i], context)]

\* whether pattern p occurs in line l (both sequences of characters)
Contains(l, p) ==
    \E i \in 0..(Len(l) - Len(p)) : SubSeq(l, i + 1, i + Len(p)) = p

\* [line for line in lines if keep(line)]
RECURSIVE FilterWarnings(_)
FilterWarnings(lines) ==
    IF lines = <<>> THEN <<>>
    ELSE (IF \/ Contains(lines[1], <<"w", "a", "r", "n", "i", "n", "g">>)
             \/ Contains(lines[1], <<"f", "a", "t", "a", "l">>)
          THEN <<lines[1]>> ELSE <<>>) \o FilterWarnings(Tail(lines))

RECURSIVE FilterFatals(_)
FilterFatals(lines) ==
    IF lines = <<>> THEN <<>>
    ELSE (IF Contains(lines[1], <<"f", "a", "t", "a", "l">>)
          THEN <<lines[1]>> ELSE <<>>) \o FilterFatals(Tail(lines))

\* a scan for warnings that misses the fatal lines
FilterWarningsOnly(lines) ==
    SelectSeq(lines, LAMBDA l : Contains(l, <<"w", "a", "r", "n", "i", "n", "g">>))

\* line 118: self._warnings
WarningsOf(lines) == FilterWarnings(lines)

\* line 119: self._fatals
FatalsOf(lines) == FilterFatals(lines)

\* line 104 with the buffer started afresh
run_input_cleared(buf) == <<Syntax("stop", <<>>)>>

\* line 104: self._input += self._syntax['stop']
run_input(buf) == Append(buf, Syntax("stop", <<>>))

\* lines 108-109 without the test
exec_missing_ignored(exec) == FALSE

\* lines 108-109: self._get_exec() is None
exec_missing(exec) == exec = "None"

(***************************************************************************)
(* sectormap, twiss, match, misalign                                       *)
(***************************************************************************)
\* the order in which the keyword arguments of a call are given
KwOrder == <<"line", "name", "ptc", "misalignment", "start", "reflect",
             "places", "fringe", "file">>

\* ",%s=%s" % (k, v) for every given keyword that is not excluded
RECURSIVE OptionsOf(_, _, _)
OptionsOf(kwargs, keys, excluded) ==
    IF keys = <<>> THEN <<>>
    ELSE (IF /\ keys[1] \in DOMAIN kwargs
             /\ kwargs[keys[1]] # "Absent"
             /\ keys[1] \notin excluded
          THEN <<",", keys[1], "=", kwargs[keys[1]]>> ELSE <<>>)
         \o OptionsOf(kwargs, Tail(keys), excluded)

\* the list a 'places' argument stands for
PlacesList(v) == IF v = "P1,P2" THEN <<"P1", "P2">> ELSE <<>>

RECURSIVE SelectPlaces(_, _)
SelectPlaces(buf, places) ==
    IF places = <<>> THEN buf
    ELSE SelectPlaces(
             raw_input(buf, <<"SELECT, FLAG=sectormap, range='", places[1], "';">>),
             Tail(places))

sectormap(buf, kwargs) ==
    IF Get(kwargs, "line", "None") = "None"
    THEN [input |-> buf, result |-> "MadxException"]
    ELSE
        LET name == Get(kwargs, "name", "None")
            b1 == IF Truthy(kwargs, "start")
                  THEN LET c1 == raw_input(buf, <<"SEQEDIT, SEQUENCE=", name, ";">>)
                           c2 == IF Truthy(kwargs, "reflect")
                                 THEN raw_input(raw_input(c1, <<"FLATTEN;">>),
                                                <<"REFLECT;">>)
                                 ELSE c1
                           c3 == raw_input(c2, <<"CYCLE, START=", kwargs.start, ";">>)
                           c4 == raw_input(c3, <<"ENDEDIT;">>)
                       IN  raw_input(c4, <<"USE, SEQUENCE=", name, ";">>)
                  ELSE buf
        IN  IF Get(kwargs, "places", "None") = "None"
            THEN [input |-> b1, result |-> "TypeError"]
            ELSE [input |->
                     add_input(SelectPlaces(b1, PlacesList(kwargs.places)),
                               "twiss_beamline",
                               <<Get(kwargs, "file", "twiss.outx")>>
                               \o OptionsOf(kwargs, KwOrder,
                                            {"ptc", "start", "places", "name",
                                             "line", "reflect"})),
                  result |-> "self"]

\* np.nan_to_num(r.get(key, 0))
NanToNum(row, key) ==
    IF key \in DOMAIN row /\ NotNull(row[key]) THEN row[key] ELSE "0"

RECURSIVE add_misalignment_element(_, _)
add_misalignment_element(buf, rows) ==
    IF rows = <<>> THEN buf
    ELSE add_misalignment_element(
             IF rows[1].TYPE # "MARKER"
             THEN add_input(buf, "mad_misalign_setup",
                            <<rows[1].TYPE, NanToNum(rows[1], "DELTAX"),
                              NanToNum(rows[1], "DELTAY"),
                              NanToNum(rows[1], "DELTAS"),
                              NanToNum(rows[1], "DELTAPHI"),
                              NanToNum(rows[1], "DELTATHETA")>>)
             ELSE buf,
             Tail(rows))

\* Madx.misalign(beamline); with no beamline the read of its table fails
misalign(buf, bl) ==
    LET b1 == add_input(buf, "misalign_option", <<>>)
    IN  IF bl = NoBeamline
        THEN [input |-> b1, result |-> "AttributeError"]
        ELSE [input |-> raw_input(add_misalignment_element(b1, bl.rows),
                                  <<"USE, SEQUENCE=", bl.name, ";">>),
              result |-> "None"]

madx_twiss(buf, kwargs) ==
    IF Get(kwargs, "line", "None") = "None"
    THEN [input |-> buf, result |-> "MadxException"]
    ELSE
        LET b1 == IF Truthy(kwargs, "start")
                  THEN Cycle(buf, kwargs.line, kwargs.start) ELSE buf
            b2 == raw_input(b1, <<"SELECT, FLAG=sectormap, range='Q3E';">>)
            b3 == raw_input(b2, <<"SELECT, FLAG=sectormap, range='P2E';">>)
        IN  [input |-> add_input(b3, "twiss_beamline",
                                 <<Get(kwargs, "file", "twiss.outx")>>
                                 \o OptionsOf(kwargs, KwOrder,
                                              {"ptc", "start", "line"})),
             result |-> "self"]

ptc_twiss(buf, kwargs) ==
    LET b1 == IF Truthy(kwargs, "fringe")
              THEN raw_input(buf, <<"PTC_SETSWITCH, FRINGE=True;">>) ELSE buf
        b2 == add_input(b1, "ptc_create_universe", <<>>)
        b3 == add_input(b2, "ptc_create_layout",
                        <<"False", "1", "6", "5", "True",
                          Get(kwargs, "fringe", "False")>>)
        b4 == IF Truthy(kwargs, "misalignment")
              THEN add_input(b3, "ptc_misalign", <<>>) ELSE b3
        b5 == IF Truthy(kwargs, "line")
              THEN add_input(b4, "ptc_twiss",
                             <<Get(kwargs, "file", "ptc_twiss.outx")>>)
              ELSE add_input(b4, "ptc_twiss_beamline",
                             <<Get(kwargs, "file", "ptc_twiss.outx")>>)
    IN  [input |-> add_input(b5, "ptc_end", <<>>), result |-> "None"]

\* Madx.twiss(**kwargs); attached is self._beamlines
twiss(buf, kwargs, attached) ==
    LET r1 == IF Truthy(kwargs, "misalignment")
              THEN misalign(buf, attached)
              ELSE [input |-> buf, result |-> "None"]
    IN  IF r1.result \in Exceptions THEN r1
        ELSE IF Truthy(kwargs, "ptc")
        THEN ptc_twiss(r1.input, kwargs)
        ELSE LET r2 == madx_twiss(r1.input, kwargs)
             IN  IF r2.result \in Exceptions THEN r2
                 ELSE [input |-> r2.input, result |-> "None"]

\* Madx.match(**kwargs): past its tests it reads a name it never bound
match(buf, kwargs) ==
    IF Get(kwargs, "sequence", "None") = "None"
    THEN [input |-> buf, result |-> "MadxException"]
    ELSE IF Get(kwargs, "vary", "None") \in {"None", "[]"}
    THEN [input |-> buf, result |-> "MadxException"]
    ELSE IF Get(kwargs, "constraints", "None") = "None"
    THEN [input |-> buf, result |-> "MadxException"]
    ELSE [input |-> buf, result |-> "NameError"]

(***************************************************************************)
(* track                                                                   *)
(***************************************************************************)
\* the columns of a particle table
ColumnsOf(c) ==
    IF c = "full" THEN {"X", "PX", "Y", "PY", "DPP"} ELSE {"X", "PX"}

\* {'X', 'PX', 'Y', 'PY', 'DPP'} > set(particles)
MissesAttributes(cols) ==
    cols \subseteq {"X", "PX", "Y", "PY", "DPP"}
    /\ cols # {"X", "PX", "Y", "PY", "DPP"}

RECURSIVE add_rows(_, _, _, _)
add_rows(buf, name, i, n) ==
    IF i > n THEN buf
    ELSE add_rows(add_input(buf, name, <<ToString(i)>>), name, i + 1, n)

\* Madx.__add_particles_for_tracking(particles, ptc)
add_particles_for_tracking(buf, particles, ptc) ==
    IF MissesAttributes(ColumnsOf(particles.columns)) THEN buf
    ELSE add_rows(buf, IF ptc THEN "ptc_start" ELSE "start_particle",
                  1, particles.n)

RECURSIVE generate_observation_points(_, _, _)
generate_observation_points(buf, rows, length) ==
    IF rows = <<>> THEN buf
    ELSE generate_observation_points(
             IF ~(rows[1].AT_EXIT = length)
             THEN add_input(buf, "observe", <<rows[1].name>>) ELSE buf,
             Tail(rows), length)

RECURSIVE generate_observation_points_ptc(_, _, _)
generate_observation_points_ptc(buf, rows, length) ==
    IF rows = <<>> THEN buf
    ELSE generate_observation_points_ptc(
             IF ~(rows[1].AT_EXIT = length) /\ rows[1].CLASS = "MARKER"
             THEN add_input(buf, "ptc_observe", <<rows[1].name>>) ELSE buf,
             Tail(rows), length)

\* the names an instance of Madx answers to: the methods of the class
\* under the names the interpreter gives them, and those of Simulator
MadxAttributes ==
    {"_attach", "run", "raw", "select_columns", "call_file", "beam",
     "use_sequence", "rbarc", "show_beam", "save_beta", "stop", "makethin",
     "survey", "sectormap", "twiss", "_Madx__madx_twiss", "_Madx__ptc_twiss",
     "_Madx__add_particles_for_tracking",
     "_Madx__generate_observation_points",
     "_Madx__generate_observation_points_ptc", "misalign", "track",
     "_Madx__madx_track", "_Madx__ptc_track", "match",
     "_Madx__add_misalignment_element",
     "_add_input", "_get_exec"}

\* Madx.__madx_track(particles, beamline, **kwargs)
madx_track(buf, particles, bl, kwargs) ==
    IF particles.n = 0 THEN [input |-> buf, result |-> "None"]
    ELSE
        LET b1 == makethin(buf, bl.name, kwargs).input
            b2 == add_input(b1, "track_beamline", <<>>)
        IN  IF "_add_particles_for_tracking" \notin MadxAttributes
            THEN [input |-> b2, result |-> "AttributeError"]
            ELSE
                LET b3 == add_particles_for_tracking(b2, particles, FALSE)
                    b4 == generate_observation_points(b3, bl.rows, bl.length)
                    b5 == add_input(b4, "run_track_beamline", <<>>)
                IN  [input |-> add_input(b5, "end_track", <<>>),
                     result |-> "self"]

\* Madx.__ptc_track(particles, beamline, **kwargs)
ptc_track(buf, particles, bl, kwargs) ==
    IF particles.n = 0 THEN [input |-> buf, result |-> "None"]
    ELSE
        LET b1 == add_input(buf, "ptc_create_universe", <<>>)
            b2 == add_input(b1, "ptc_create_layout",
                            <<"False", "2", "6", "10", "True",
                              Get(kwargs, "fringe", "False")>>)
            b3 == IF Truthy(kwargs, "misalignment")
                  THEN add_input(b2, "ptc_misalign", <<>>) ELSE b2
            b4 == add_particles_for_tracking(b3, particles, TRUE)
            b5 == generate_observation_points_ptc(b4, bl.rows, bl.length)
            b6 == add_input(b5, "ptc_track",
                            <<"5", "0.0", "False", "True", "1", "True", "True",
                              "ptctrack", ".tfs">>)
            b7 == add_input(b6, "ptc_track_end", <<>>)
        IN  [input |-> add_input(b7, "ptc_end", <<>>), result |-> "None"]

\* Madx.track(particles, beamline, **kwargs)
track(buf, particles, bl, kwargs) ==
    LET b1 == IF Truthy(kwargs, "start")
              THEN Cycle(buf, bl.name, kwargs.start) ELSE buf
        r2 == IF Truthy(kwargs, "misalignment")
              THEN misalign(b1, bl)
              ELSE [input |-> b1, result |-> "None"]
    IN  IF r2.result \in Exceptions THEN r2
        ELSE LET r3 == IF Get(kwargs, "ptc", "True") \notin {"False", "None"}
                       THEN ptc_track(r2.input, particles, bl, kwargs)
                       ELSE madx_track(r2.input, particles, bl, kwargs)
             IN  IF r3.result \in Exceptions THEN r3
                 ELSE [input |-> r3.input, result |-> "None"]

(***************************************************************************)
(* Calls on one wrapper                                                    *)
(***************************************************************************)
\* a beamline of three elements, given out of order; the last one ends
\* where the beamline ends
BeamlineRows ==
    << Row(1, "MARKER", 2, "nan") @@ [AT_EXIT |-> "2.0", TYPE |-> "MARKER"],
       Row(2, "QUADRUPOLE", 1, "QC1") @@ [AT_EXIT |-> "2.0", TYPE |-> "QUADRUPOLE"],
       Row(3, "SBEND", 3, "nan") @@ [AT_EXIT |-> "10.0", TYPE |-> "SBEND"] >>

Beamline(length) ==
    [name |-> "LINE", length |-> length, circuitColumn |-> TRUE,
     rows |-> BeamlineRows]

\* a call can be made: on the wrapper itself, or chained on the value the
\* previous call returned
CanCall(chained) ==
    /\ ncalls < MaxCalls
    /\ chained => (ncalls > 0 /\ call.result \in {"self", "None"})

\* a call chained on None raises before the method is entered
OnNone(chained) == chained /\ call.result = "None"

\* the part of a call all methods share
Invoke(op, args, chained, r) ==
    /\ call' = [op |-> op, args |-> args, chained |-> chained,
                result |-> IF OnNone(chained) THEN "AttributeError"
                           ELSE r.result]
    /\ input' = IF OnNone(chained) THEN input ELSE r.input
    /\ ncalls' = ncalls + 1

runVars == <<output, warnings, fatals, last_context, stdin, spawned, nruns>>

\* a call of a method that only writes to the buffer
Build(op, args, chained, r) ==
    /\ CanCall(chained)
    /\ Invoke(op, args, chained, r)
    /\ UNCHANGED <<runVars, beamlines, pureVars>>

AttachWith(lengths) ==
    \E length \in lengths :
    \E sorted \in SortValues(BeamlineRows) :
        LET r == attach(input, Beamline(length), sorted)
        IN  /\ CanCall(FALSE)
            /\ Invoke("attach", [length |-> length], FALSE, r)
            /\ beamlines' = r.beamlines
            /\ UNCHANGED <<runVars, pureVars>>

\* run(context=...): exec is what self._get_exec() answers at this call,
\* out the lines the process writes
RunWith(chains, contexts, execs, outs) ==
    \E chained \in chains, context \in contexts, exec \in execs, out \in outs :
        /\ CanCall(chained)
        /\ LET args == [context |-> context, exec |-> exec, out |-> out]
           IN  IF OnNone(chained)
               THEN /\ Invoke("run", args, chained, [input |-> input, result |-> ""])
                    /\ UNCHANGED runVars
               ELSE /\ nruns' = nruns + 1
                    /\ IF exec_missing(exec)
                       THEN /\ Invoke("run", args, chained,
                                      [input |-> run_input(input),
                                       result |-> "MadxException"])
                            /\ UNCHANGED <<output, warnings, fatals,
                                           last_context, stdin, spawned>>
                       ELSE /\ Invoke("run", args, chained,
                                      [input |-> run_input(input),
                                       result |-> "self"])
                            /\ spawned' = spawned + 1
                            /\ stdin' = Render(run_input(input), context)
                            /\ output' = out
                            /\ warnings' = WarningsOf(out)
                            /\ fatals' = FatalsOf(out)
                            /\ last_context' = context
        /\ UNCHANGED <<beamlines, pureVars>>

\* the template contexts that are tried: an empty one, one that sets QC1
Contexts == { [c \in {} |-> ""], [QC1 |-> "1.5"] }

\* the output lines that are tried: "ok", "warnings", "fatal!" and
\* "FATAL Warning" (which matches neither pattern)
OutLines ==
    { <<"o", "k">>,
      <<"w", "a", "r", "n", "i", "n", "g", "s">>,
      <<"f", "a", "t", "a", "l", "!">>,
      <<"F", "A", "T", "A", "L", " ", "W", "a", "r", "n", "i", "n", "g">> }

\* every output of 1..n lines
Outputs(n) == UNION { [1..k -> OutLines] : k \in 1..n }

\* two outputs: one with a warning and a fatal line, one with neither
SomeOutputs ==
    { << <<"o", "k">>, <<"w", "a", "r", "n", "i", "n", "g", "s">>,
         <<"f", "a", "t", "a", "l", "!">> >>,
      << <<"o", "k">> >> }

BooleanChoices == {FALSE, TRUE}

Raw == \E chained \in BooleanChoices :
    Build("raw", [text |-> "TITLE"], chained, raw(input, <<"TITLE, 'x';">>))

SelectColumns == \E chained \in BooleanChoices :
    Build("select_columns", [flag |-> "twiss"], chained,
          select_columns(input, "twiss", <<"NAME", "S">>))

CallFile == \E chained \in BooleanChoices :
    Build("call_file", [file |-> "f.madx"], chained, call_file(input, "f.madx"))

Beam == \E chained \in BooleanChoices :
    Build("beam", [line_name |-> "LINE"], chained, beam(input, "LINE"))

UseSequence == \E chained \in BooleanChoices :
    Build("use_sequence", [sequence |-> "LINE"], chained,
          use_sequence(input, "LINE"))

Rbarc == \E chained \in BooleanChoices :
    Build("rbarc", [none |-> ""], chained, rbarc(input))

ShowBeam == \E chained \in BooleanChoices :
    Build("show_beam", [none |-> ""], chained, show_beam(input))

SaveBeta == \E chained \in BooleanChoices :
    \E kwargs \in [name : {"Absent", "B1"}, place : {"Absent"}] :
        Build("save_beta", kwargs, chained, save_beta(input, kwargs))

Stop == \E chained \in BooleanChoices :
    Build("stop", [none |-> ""], chained, stop(input))

Makethin == \E chained \in BooleanChoices :
    \E kwargs \in [style : {"Absent"}, dipole_slices : {"Absent", "8"},
                   quadrupole_slices : {"Absent"}] :
        Build("makethin", kwargs, chained, makethin(input, "LINE", kwargs))

Survey == \E chained \in BooleanChoices :
    \E kwargs \in [start : {"Absent", "E1"}] :
        Build("survey", kwargs, chained, survey(input, kwargs))

Attach == AttachWith({"10.0", "None", "nan"})

\* runs whose output is scanned
RunScan == RunWith({FALSE}, {[c \in {} |-> ""]}, {"madx"}, Outputs(MaxOutLines))

\* runs with and without an executable
Run == RunWith(BooleanChoices, Contexts, {"madx", "None"}, SomeOutputs)

InitMadx ==
    /\ MadxIdle
    /\ pc = "call"
    /\ e = <<>> /\ mad = <<>> /\ sequence = <<>> /\ m = <<>>
    /\ te = <<>> /\ fn = "" /\ tm = <<>>

NextScan == RunScan

SpecScan == InitMadx /\ [][NextScan]_vars

NextRun == Attach \/ Raw \/ Stop \/ Run

SpecRun == InitMadx /\ [][NextRun]_vars

\* sectormap(**kwargs)
SectormapWith(domain) ==
    \E kwargs \in domain :
        Build("sectormap", kwargs, FALSE, sectormap(input, kwargs))

\* twiss(**kwargs), on the beamline that is attached
TwissWith(domain) ==
    \E kwargs \in domain :
        Build("twiss", kwargs, FALSE, twiss(input, kwargs, beamlines))

\* match(**kwargs)
MatchWith(domain) ==
    \E kwargs \in domain :
        Build("match", kwargs, FALSE, match(input, kwargs))

\* track(particles, beamline, **kwargs)
TrackWith(tables, domain) ==
    \E particles \in tables, kwargs \in domain :
        Build("track", [particles |-> particles, kwargs |-> kwargs], FALSE,
              track(input, particles, Beamline("10.0"), kwargs))

Sectormap ==
    SectormapWith([line : {"Absent", "LINE"}, name : {"LINE"},
                   start : {"Absent", "E1"}, reflect : {"Absent", "True"},
                   places : {"Absent", "P1,P2"}, file : {"Absent", "s.outx"}])

Twiss ==
    TwissWith([line : {"Absent", "LINE"}, ptc : {"Absent", "True"},
               misalignment : {"Absent", "True"}, start : {"Absent", "E1"},
               file : {"Absent"}])

Match ==
    MatchWith([sequence : {"Absent", "LINE"}, vary : {"Absent", "[]", "[K1]"},
               constraints : {"Absent", "{K1: 1}"}])

ParticleTables == [columns : {"full", "partial"}, n : 0..MaxParticles]

Track ==
    TrackWith(ParticleTables,
              [start : {"Absent", "E1"}, misalignment : {"Absent", "True"},
               ptc : {"Absent", "False"}])

NextCalls == Attach \/ Sectormap \/ Twiss \/ Match

SpecCalls == InitMadx /\ [][NextCalls]_vars

NextTrack == Track

SpecTrack == InitMadx /\ [][NextTrack]_vars

\* one call of each compound operation, for the runs of the whole wrapper
SectormapOnce ==
    SectormapWith([line : {"LINE"}, name : {"LINE"}, start : {"E1"},
                   reflect : {"Absent"}, places : {"P1,P2"}, file : {"Absent"}])

TwissOnce ==
    TwissWith([line : {"LINE"}, ptc : {"Absent", "True"},
               misalignment : {"Absent"}, start : {"Absent"}, file : {"Absent"}])

MatchOnce ==
    MatchWith([sequence : {"LINE"}, vary : {"[K1]"}, constraints : {"{K1: 1}"}])

TrackOnce ==
    TrackWith([columns : {"full"}, n : {1}],
              [start : {"Absent"}, misalignment : {"Absent"},
               ptc : {"Absent", "False"}])

AttachOnce == AttachWith({"10.0"})

RunOnce == RunWith(BooleanChoices, {[QC1 |-> "1.5"]}, {"madx", "None"},
                   {<< <<"o", "k">> >>})

Next ==
    \/ Raw \/ SelectColumns \/ CallFile \/ Beam \/ UseSequence \/ Rbarc
    \/ ShowBeam \/ SaveBeta \/ Stop \/ Makethin \/ Survey
    \/ SectormapOnce \/ TwissOnce \/ MatchOnce \/ TrackOnce
    \/ AttachOnce \/ RunOnce

Spec == InitMadx /\ [][Next]_vars

(***************************************************************************)
(* Properties of element_to_mad                                            *)
(***************************************************************************)
\* the last n tokens of a text
Suffix(s, n) == SubSeq(s, Len(s) - n + 1, Len(s))

\* the positions of a text where a term named ANGLE starts
AngleTerms(s) == {i \in DOMAIN s : s[i] = "ANGLE"}

\* a value that is present and is a finite number
Finite(v) == v \notin {"None", "nan", "inf"}

\* C6: an element whose class is outside {QUADRUPOLE, RBEND, SBEND,
\* SEXTUPOLE, OCTUPOLE, MARKER, COLLIMATOR, INSTRUMENT} translates to the
\* empty text whatever its other fields are; an element whose class is in
\* the set translates to a non-empty text that starts with
\* '<name>: <CLASS>, ' and ends with the AT=<center> term and ';'.
C6_SupportedClasses ==
    pc = "done" =>
        IF e.CLASS \in {"QUADRUPOLE", "RBEND", "SBEND", "SEXTUPOLE",
                        "OCTUPOLE", "MARKER", "COLLIMATOR", "INSTRUMENT"}
        THEN /\ mad # <<>>
             /\ Len(mad) >= 8
             /\ SubSeq(mad, 1, 4) = <<e.name, ": ", e.CLASS, ", ">>
             /\ Suffix(mad, 5) = <<", ", "AT", "=", ToString(e.AT_CENTER), ";">>
        ELSE mad = <<>>

\* C6 happens: an unsupported element with angle, strength, length and
\* powering fields set has been translated to the empty text
C6_Witness ==
    /\ pc = "done"
    /\ e.CLASS = "SOLENOID"
    /\ e.BENDING_ANGLE = "0.1"
    /\ e.props["K1"] = "2.5"
    /\ e.LENGTH = "2.0"
    /\ e.PLUG = "K1" /\ e.VALUE = "3.0"
    /\ mad = <<>>

IsSequenceLine(l) == Len(l) >= 3 /\ l[2] = ": " /\ l[3] = "SEQUENCE"

IsEndSequenceLine(l) == l = <<"ENDSEQUENCE", ";">>

\* an element command line: '<name>: <CLASS>, ... AT=<center>;'
IsElementLine(l) ==
    /\ Len(l) >= 8
    /\ l[2] = ": "
    /\ l[3] # "SEQUENCE"
    /\ l[Len(l) - 3] = "AT"

IsCircuitLine(l) == Len(l) = 6 /\ l[2] = ":=" /\ l[3] = "{{ " /\ l[1] = l[4]

\* the center position an element line carries in its AT term
AtOf(l) == CHOOSE n \in 0..(MaxPos + 1) : ToString(n) = l[Len(l) - 1]

ElementLines(t) == {i \in DOMAIN t : IsElementLine(t[i])}

\* C4: whatever the input row order, the text opens with one SEQUENCE line
\* carrying the beamline's name and length, holds one ENDSEQUENCE line, the
\* element lines (one per row of a supported class) all lie between the two
\* and come in ascending order of center position, and only circuit
\* assignment lines (or an empty line) follow ENDSEQUENCE.
C4_SortedSequence ==
    pc = "done" =>
        /\ m[1] = <<sequence.name, ": ", "SEQUENCE", ", ", "L", "=",
                    sequence.length, ", ", "REFER", "=", "CENTER", ";">>
        /\ {i \in DOMAIN m : IsSequenceLine(m[i])} = {1}
        /\ \E k \in DOMAIN m :
              /\ {i \in DOMAIN m : IsEndSequenceLine(m[i])} = {k}
              /\ \A i \in ElementLines(m) : 1 < i /\ i < k
              /\ \A i \in DOMAIN m :
                    i > k => IsCircuitLine(m[i]) \/ m[i] = <<>>
        /\ \A i, j \in ElementLines(m) :
              i < j => AtOf(m[i]) <= AtOf(m[j])
        /\ Cardinality(ElementLines(m)) =
              Cardinality({i \in DOMAIN sequence.rows :
                  sequence.rows[i].CLASS \in
                      {"QUADRUPOLE", "RBEND", "SBEND", "SEXTUPOLE",
                       "OCTUPOLE", "MARKER", "COLLIMATOR", "INSTRUMENT"}})
        /\ \A i \in DOMAIN sequence.rows :
              sequence.rows[i].CLASS = "QUADRUPOLE" =>
                  \E j \in ElementLines(m) :
                      /\ m[j][1] = sequence.rows[i].name
                      /\ AtOf(m[j]) = sequence.rows[i].AT_CENTER

\* C4 happens: a table given in descending order (E1 after E2 after E3 by
\* center) comes out as E3, E2, E1 between SEQUENCE and ENDSEQUENCE, with a
\* circuit line after ENDSEQUENCE
C4_Witness ==
    /\ pc = "done"
    /\ Len(m) >= 6
    /\ IsSequenceLine(m[1])
    /\ IsElementLine(m[2]) /\ m[2][1] = "E3" /\ AtOf(m[2]) = 1
    /\ IsElementLine(m[3]) /\ m[3][1] = "E2" /\ AtOf(m[3]) = 2
    /\ IsElementLine(m[4]) /\ m[4][1] = "E1" /\ AtOf(m[4]) = 3
    /\ IsEndSequenceLine(m[5])
    /\ IsCircuitLine(m[6])

(***************************************************************************)
(* Properties of sbend                                                     *)
(***************************************************************************)
\* C8: for a sector bend of angle exactly zero, whatever its length and its
\* face angles, sbend returns, entry by entry, the drift matrix of that
\* length: the identity with the length at (1,2) and (3,4), every entry a
\* finite number (nothing was divided by the zero angle).
C8_ZeroAngleIsDrift ==
    (pc = "done" /\ fn = "sbend" /\ te.ANGLE = Num(0)) =>
        /\ \A i, j \in 1..5 :
              tm[i][j] = IF i = j THEN Num(Scale)
                         ELSE IF <<i, j>> \in {<<1, 2>>, <<3, 4>>}
                         THEN te.LENGTH
                         ELSE Num(0)
        /\ \A i, j \in 1..5 : tm[i][j].kind = "num"

\* C8 happens: a zero-angle bend of non-zero length with non-zero face
\* angles has been given the drift matrix
C8_Witness ==
    /\ pc = "done"
    /\ fn = "sbend"
    /\ te.ANGLE = Num(0)
    /\ te.LENGTH = Num(1000)
    /\ te.E1 = Num(100) /\ te.E2 = Num(-200)
    /\ tm = drift(te)

(***************************************************************************)
(* Properties of the wrapper                                               *)
(***************************************************************************)
\* s is the beginning of t
IsPrefix(s, t) == Len(s) <= Len(t) /\ SubSeq(t, 1, Len(s)) = s

\* the lines of an output at the positions idx, in the output's order
RECURSIVE Pick(_, _)
Pick(lines, idx) ==
    IF idx = {} THEN <<>>
    ELSE LET i == CHOOSE i \in idx : \A j \in idx : i <= j
         IN  <<lines[i]>> \o Pick(lines, idx \ {i})

WarningWord == <<"w", "a", "r", "n", "i", "n", "g">>
FatalWord == <<"f", "a", "t", "a", "l">>

\* the step is a call that entered the method
Called(op) == ncalls' = ncalls + 1 /\ call'.op = op /\ ~OnNone(call'.chained)

\* the errors the wrapper raises for a bad configuration
ConfigurationErrors == {"MadxException", "SimulatorException"}

\* C3: after a successful run, warnings is the subsequence of the lines of
\* the captured output that contain 'warning' or 'fatal', fatals the
\* subsequence of those that contain 'fatal', both in output order, and the
\* captured output is that of the latest run only.
C3_WarningsAndFatals ==
    (call.op = "run" /\ call.result = "self") =>
        /\ output = call.args.out
        /\ warnings = Pick(output, {i \in DOMAIN output :
                                      \/ Contains(output[i], WarningWord)
                                      \/ Contains(output[i], FatalWord)})
        /\ fatals = Pick(output, {i \in DOMAIN output :
                                      Contains(output[i], FatalWord)})
        /\ \A i \in DOMAIN fatals : \E j \in DOMAIN warnings :
               warnings[j] = fatals[i]
        /\ \A i \in DOMAIN output :
               (~Contains(output[i], WarningWord) /\ ~Contains(output[i], FatalWord))
               => /\ \A j \in DOMAIN warnings : warnings[j] # output[i]
                  /\ \A j \in DOMAIN fatals : fatals[j] # output[i]

\* a second run whose output mixes a plain line, a warning, a fatal line
\* and an upper-case line, after a first run with another output
C3_Witness ==
    /\ call.op = "run" /\ call.result = "self" /\ nruns = 2
    /\ Len(output) = 3 /\ Len(warnings) = 2 /\ Len(fatals) = 1
    /\ \E i \in DOMAIN output : output[i] = <<"F", "A", "T", "A", "L", " ",
                                              "W", "a", "r", "n", "i", "n", "g">>

\* C2: an attach of a beamline whose length is undefined raises the
\* configuration error and appends nothing; a run with no executable
\* raises it, starts no process and leaves the captured output, warnings,
\* fatals and context of the previous run as they were.
C2_FailsBeforeSpawn ==
    [][ /\ (Called("attach") /\ IsNull(call'.args.length)) =>
               /\ call'.result \in ConfigurationErrors
               /\ input' = input
               /\ spawned' = spawned
        /\ (Called("run") /\ call'.args.exec = "None") =>
               /\ call'.result \in ConfigurationErrors
               /\ spawned' = spawned
               /\ output' = output /\ warnings' = warnings
               /\ fatals' = fatals /\ last_context' = last_context
               /\ stdin' = stdin ]_vars

\* a run without executable, after a failed attach and a successful run
C2_Witness ==
    /\ call.op = "run" /\ call.result = "MadxException"
    /\ call.args.exec = "None"
    /\ spawned = 1 /\ Len(output) = 3 /\ Len(warnings) = 2
    /\ beamlines # NoBeamline /\ IsNull(beamlines.length)
    /\ input = << <<"stop">>, <<"stop">> >>

\* the number of stop commands a buffer holds
StopCount(buf) == Cardinality({i \in DOMAIN buf : buf[i] = <<"stop">>})

\* C10: the buffer before each operation is a prefix of the buffer after
\* it; a run appends exactly one stop command and clears nothing, so the
\* stop commands in the buffer are one per run (plus one per call of the
\* stop builder), and a run that starts the process submits every earlier
\* fragment again.
C10_BufferOnlyGrows ==
    [][ /\ IsPrefix(input, input')
        /\ Called("run") =>
               /\ input' = Append(input, <<"stop">>)
               /\ StopCount(input') = StopCount(input) + 1
        /\ (Called("run") /\ call'.result = "self") =>
               /\ Len(stdin') = Len(input) + 1
               /\ \A i \in DOMAIN input :
                      stdin'[i] = RenderFragment(input[i], call'.args.context)
        /\ (ncalls' = ncalls + 1 /\ call'.op \notin {"run", "stop"}) =>
               StopCount(input') = StopCount(input)
        /\ (ncalls' = ncalls + 1 /\ StopCount(input) = nruns
            /\ ~Called("stop")) => StopCount(input') = nruns' ]_vars

\* two runs with a builder call between them: two stop commands, and the
\* second run submits the three fragments
C10_Witness ==
    /\ call.op = "run" /\ call.result = "self"
    /\ nruns = 2 /\ spawned = 2
    /\ Len(input) = 3 /\ StopCount(input) = 2 /\ Len(stdin) = 3
    /\ input[1] = <<"stop">> /\ input[2] # <<"stop">>

\* a call of sectormap, twiss or match that lacks a required argument
MissingArgument(c) ==
    \/ c.op \in {"sectormap", "twiss"} /\ Get(c.args, "line", "None") = "None"
    \/ /\ c.op = "match"
       /\ \/ Get(c.args, "sequence", "None") = "None"
          \/ Get(c.args, "vary", "None") \in {"None", "[]"}
          \/ Get(c.args, "constraints", "None") = "None"

\* C1: a call of sectormap or twiss without a beamline, or of match
\* without a sequence name, with an absent or empty vary list or without
\* constraints, fails with the configuration error and leaves the buffer
\* exactly as it was, whatever the other options are.
C1_MissingArgumentFails ==
    [][ (ncalls' = ncalls + 1 /\ MissingArgument(call')) =>
            /\ call'.result \in ConfigurationErrors
            /\ input' = input ]_vars

\* the builders the claim names
BuilderOps ==
    {"raw", "select_columns", "call_file", "beam", "use_sequence", "rbarc",
     "show_beam", "save_beta", "stop", "makethin"}

\* C5: each command builder appends its command(s) to the buffer and
\* returns the wrapper itself, so a builder call chained on the value
\* another builder returned is made on the wrapper.
C5_BuildersReturnSelf ==
    [][ (/\ ncalls' = ncalls + 1
         /\ call'.op \in BuilderOps
         /\ call'.chained => call.op \in BuilderOps) =>
            /\ call'.result = "self"
            /\ IsPrefix(input, input') /\ Len(input') > Len(input) ]_vars

\* the commands the claim lists for a plain track call
PlainTrackCommands(particles, bl) ==
    << <<"SELECT, FLAG=makethin, CLASS=quadrupole, THICK=false, SLICE=",
         "4", ";", "\n">>,
       <<"SELECT, FLAG=makethin, CLASS=rbend, THICK=false, SLICE=",
         "4", ";", "\n">>,
       <<"makethin", bl.name, "TEAPOT">>,
       <<"use_sequence", bl.name>>,
       <<"track_beamline">> >>
    \o (IF {"X", "PX", "Y", "PY", "DPP"} \subseteq ColumnsOf(particles.columns)
        THEN [i \in 1..particles.n |-> <<"start_particle", ToString(i)>>]
        ELSE <<>>)
    \o (LET seen == SelectSeq(bl.rows, LAMBDA r : r.AT_EXIT # bl.length)
        IN  [i \in DOMAIN seen |-> <<"observe", seen[i].name>>])
    \o << <<"run_track_beamline">>, <<"end_track">> >>

\* C9: a plain track call with at least one particle completes, and the
\* buffer then ends with: the makethin sequence, the track-beamline
\* command, one start-particle command per particle of a table with the
\* attributes X, PX, Y, PY, DPP, one observation point per element that
\* does not end where the beamline ends, the run-track command and the
\* end-track command.
C9_PlainTrackOrder ==
    [][ (/\ ncalls' = ncalls + 1 /\ call'.op = "track"
         /\ call'.args.kwargs.ptc = "False"
         /\ call'.args.particles.n >= 1) =>
            LET cmds == PlainTrackCommands(call'.args.particles, Beamline("10.0"))
            IN  /\ call'.result \notin Exceptions
                /\ IsPrefix(input, input')
                /\ Len(input') >= Len(input) + Len(cmds)
                /\ Suffix(input', Len(cmds)) = cmds ]_vars

=============================================================================
